---- MODULE Spec2Model ----
(***************************************************************************)
(* Custom-authentication state machine of the LoginID Cognito web SDK.     *)
(*                                                                         *)
(* Two variants of the orchestrator are modelled side by side:             *)
(*   "session"    src/src/cognito/index.ts  (resolves CognitoUserSession)  *)
(*   "authresult" src/unnamed/part_015:430-983 (resolves AuthResult)       *)
(* The facade is src/src/loginid/index.ts.  The identity provider          *)
(* (amazon-cognito-identity-js), the passkey backend and the WebAuthn      *)
(* layer are the environment: every request gets one nondeterministic      *)
(* response.                                                               *)
(*                                                                         *)
(* A behaviour follows a facade instance either through ONE passkey call   *)
(* (addPasskey, signInPasskey, signInWithAccessToken) or through a series  *)
(* of initializeEmailOTP / completeEmailOTP calls.  Passkey calls share no *)
(* state with each other or with the OTP calls but the caller's            *)
(* AbortController; what any other call or the caller does to that         *)
(* controller is the action CallerAbort.  The scenario "shared" instead    *)
(* follows concurrent passkey calls that were all given the same           *)
(* AbortController (SpecShared).                                           *)
(***************************************************************************)
EXTENDS Integers, Sequences, FiniteSets, TLC

\* ---------------------------------------------------------------- bounds
MaxOtpCalls == 3
MaxChallenges == 2
MaxSpurious == 1

\* ------------------------------------------------------ program constants
DEFAULT_MATCH_THRESHOLD == 80

ACCESS_JWT == "JWT_ACCESS"
EMAIL_OTP == "EMAIL_OTP"
AUTH_PARAMS == "AUTH_PARAMS"
FIDO2_CREATE == "FIDO2_CREATE"
FIDO2_GET == "FIDO2_GET"

\* ------------------------------------------------------------ input sets
Variants == {"session", "authresult"}
Calls == 1..MaxOtpCalls
Controllers == {1}
\* call slots of the concurrent passkey calls that share one controller
SharedSlots == {1, 2}
Usernames == {"Alice"}
CallerTokens == {"tokA", "tokB"}
BackendJwts == {"jwt1"}
\* Cognito id token of the current user in localStorage; "" = none
StoredIdTokens == {"", "tokS"}
Sessions == {"s1"}
ProviderErrors == {"NotAuthorizedException"}
OtpCodes == {"123456"}
OtpEmails == {"Alice"}
\* challenge tag of ChallengeParameters in a passkey session; "absent" = no
\* challenge field (the substantive challenge)
ChallengeTags == {AUTH_PARAMS, "absent"}
NoScore == -1
NoThreshold == -1
Scores == {NoScore, 0, 50, 70, 80}
Thresholds == {NoThreshold, 0, 60}
\* offered fallback method lists; Undefined = field missing in the payload
Undefined == <<"undefined">>
MethodLists == {Undefined, <<"otp">>}
BackendErrorCodes == {"not_found", "internal", "none"}

toLowerCase(s) == IF s = "Alice" THEN "alice" ELSE s

\* ------------------------------------------------------------ value shapes
\* One uniform record for every value a promise can settle with.
Pending ==
  [kind |-> "pending", shape |-> "none", session |-> "none", idToken |-> "",
   accessToken |-> "", isAuthenticated |-> FALSE, isFallback |-> FALSE,
   fallbackOptions |-> Undefined, user |-> 0, errClass |-> "none",
   msg |-> "", msgCode |-> "none"]

idTokenOf(s) == IF s = "s1" THEN "id1" ELSE "id2"
accessTokenOf(s) == IF s = "s1" THEN "access1" ELSE "access2"

\* resolve(session): the CognitoUserSession itself
SessionValue(s) ==
  [Pending EXCEPT !.kind = "resolved", !.shape = "session", !.session = s,
                  !.idToken = idTokenOf(s), !.accessToken = accessTokenOf(s)]

\* AuthResult built in onSuccess of the AuthResult variant
AuthResultOfSession(s) ==
  [Pending EXCEPT !.kind = "resolved", !.shape = "authresult", !.session = s,
                  !.idToken = idTokenOf(s), !.accessToken = accessTokenOf(s),
                  !.isAuthenticated = TRUE, !.isFallback = FALSE]

\* Mutation of AuthResultFallback: isAuthenticated copied from the success result
AuthResultFallback_authenticated(methods) ==
  [Pending EXCEPT !.kind = "resolved", !.shape = "authresult",
                  !.isAuthenticated = TRUE, !.isFallback = TRUE,
                  !.fallbackOptions = methods]

\* AuthResult built on the fallback branch of the AuthResult variant
AuthResultFallback(methods) ==
  [Pending EXCEPT !.kind = "resolved", !.shape = "authresult",
                  !.isAuthenticated = FALSE, !.isFallback = TRUE,
                  !.fallbackOptions = methods]

\* AuthResult of signUp without auto sign-in (AuthResult variant)
AuthResultSignedUp ==
  [Pending EXCEPT !.kind = "resolved", !.shape = "authresult",
                  !.isAuthenticated = FALSE, !.isFallback = FALSE]

NullValue == [Pending EXCEPT !.kind = "resolved", !.shape = "null"]

UserValue(u) == [Pending EXCEPT !.kind = "resolved", !.shape = "user", !.user = u]

Rejection(class, m, code) ==
  [Pending EXCEPT !.kind = "rejected", !.shape = "error", !.errClass = class,
                  !.msg = m, !.msgCode = code]

\* new LoginidAPIError(message, msgCode)
LoginidAPIError(m, code) == Rejection("LoginidAPIError", m, code)

\* passkeyAuthInit result: null, or an object with optional fields.  The
\* session variant reads matchScore and fallbackOptions, the AuthResult
\* variant reads action and fallbackMethods; methods is the offered list.
NullInit == [present |-> FALSE, matchScore |-> NoScore, action |-> "none", methods |-> Undefined]
NoInitYet == [present |-> FALSE, matchScore |-> NoScore, action |-> "unset", methods |-> Undefined]
InitResults(v) ==
  {NullInit} \cup
  IF v = "session"
  THEN [present : {TRUE}, matchScore : Scores, action : {"none"}, methods : MethodLists]
  ELSE [present : {TRUE}, matchScore : {NoScore}, action : {"proceed", "fallback"}, methods : MethodLists]

\* ------------------------------------------------- passkey-backend errors
\* What a failing request throws: the JSON body of a non-2xx response
\* (HTTP.request, `throw data`), or the Error of fetch / response.json().
\* kind "object" has the optional fields msg, message and msgCode ("none" =
\* field absent); kind "null" is a null body, "primitive" a string or number.
PayloadTexts == {"none", "", "m1", "m2"}
PayloadCodes == {"none", "not_found", "internal"}
Payloads ==
  [kind : {"object"}, msg : PayloadTexts, message : PayloadTexts, msgCode : PayloadCodes]
  \cup [kind : {"null", "primitive"}, msg : {"none"}, message : {"none"}, msgCode : {"none"}]

\* JavaScript truthiness of an optional string field
Truthy(x) == x \notin {"none", ""}

\* Mutation of fromPayload: the msgCode of the payload is not handed on
fromPayload_noCode(payload) ==
  IF payload.kind = "object" /\ Truthy(payload.msg)
  THEN LoginidAPIError(payload.msg, "none")
  ELSE IF payload.kind = "object" /\ Truthy(payload.message)
  THEN LoginidAPIError(payload.message, "none")
  ELSE LoginidAPIError("Unknown error", "none")

\* LoginidAPIError.fromPayload
fromPayload(payload) ==
  IF payload.kind = "object" /\ Truthy(payload.msg)
  THEN LoginidAPIError(payload.msg, payload.msgCode)
  ELSE IF payload.kind = "object" /\ Truthy(payload.message)
  THEN LoginidAPIError(payload.message, "none")
  ELSE LoginidAPIError("Unknown error", "none")

\* LoginIDService.execute for a callback that throws payload: the error that
\* leaves execute
execute(baseUrlSet, payload) ==
  IF ~baseUrlSet
  THEN Rejection("Error", "PasskeyAPI base URL is not set", "none")
  ELSE fromPayload(payload)

NoPayload == [kind |-> "null", msg |-> "none", message |-> "none", msgCode |-> "none"]
NoApiCall == [baseUrlSet |-> TRUE, payload |-> NoPayload, error |-> Pending]

\* ------------------------------------------------------- client metadata
\* options.metaData: a map from keys to strings, among them the two keys the
\* orchestrator sets itself
MetaKeys == {"authentication_type", "options", "tenant"}
MetaValues == {FIDO2_CREATE, "{idToken:tokB}"}
MetaDatas == UNION {[K -> MetaValues] : K \in SUBSET MetaKeys}
DisplayNames == {"none", "Ann"}
EmptyObject == [k \in {} |-> ""]

\* fullOptions of customAuthenticationPasskey (displayName "none" = not given)
FullOptions(token, displayName) == [idToken |-> token, displayName |-> displayName]

\* JSON.stringify(fullOptions): the text of the object
JSON_stringify(o) ==
  CASE o.idToken = "tokA" /\ o.displayName = "none" -> "{idToken:tokA,user:{}}"
    [] o.idToken = "tokA" /\ o.displayName # "none" -> "{idToken:tokA,user:{displayName:Ann}}"
    [] o.idToken = "tokB" /\ o.displayName = "none" -> "{idToken:tokB,user:{}}"
    [] OTHER -> "{idToken:tokB,user:{displayName:Ann}}"

\* Mutation of Spread: the keys of the first object win over the later ones
Spread_firstWins(first, later) ==
  [k \in DOMAIN first \cup DOMAIN later |->
     IF k \in DOMAIN first THEN first[k] ELSE later[k]]

\* { ...first, <later properties> }: properties written later in an object
\* literal replace spread ones of the same key
Spread(first, later) ==
  [k \in DOMAIN first \cup DOMAIN later |->
     IF k \in DOMAIN later THEN later[k] ELSE first[k]]

\* const metaData = options.metaData || {}
metaDataOf(options) == IF options.hasMetaData THEN options.metaData ELSE EmptyObject

\* clientMetadata of callbackCreateObj / callbackGetObj / callbackJWTObj
clientMetadata_passkey(options, token, type) ==
  Spread(metaDataOf(options),
         [k \in {"options", "authentication_type"} |->
            IF k = "options"
            THEN JSON_stringify(FullOptions(token, options.displayName))
            ELSE type])

\* clientMetadata of callbackEmailOTP and of customAuthenticationComplete
clientMetadata_otp(options, type) ==
  Spread(metaDataOf(options), [k \in {"authentication_type"} |-> type])

\* the client metadata an orchestrator call of the given mode passes to
\* sendCustomChallengeAnswer
clientMetadataOf(m) ==
  IF m.mode = "passkey"
  THEN clientMetadata_passkey(m.options, m.token, m.type)
  ELSE clientMetadata_otp(m.options, m.type)

MetaModes ==
  [mode : {"passkey"}, type : {FIDO2_CREATE, FIDO2_GET, ACCESS_JWT}]
  \cup [mode : {"otpInit", "otpComplete"}, type : {EMAIL_OTP}]
CallerOptions ==
  [hasMetaData : {TRUE}, metaData : MetaDatas, displayName : DisplayNames]
  \cup [hasMetaData : {FALSE}, metaData : {EmptyObject}, displayName : DisplayNames]
NoMetaCall ==
  [mode |-> "passkey", type |-> FIDO2_GET, token |-> "tokA",
   options |-> [hasMetaData |-> FALSE, metaData |-> EmptyObject, displayName |-> "none"],
   built |-> FALSE, clientMetadata |-> EmptyObject]

\* ------------------------------------------------------------------ state
VARIABLES
  variant,             \* which orchestrator variant is built into the SDK
  scenario,            \* "single": one passkey call or a series of OTP calls;
                       \* "shared": concurrent passkey calls on one AbortController
  calls,               \* one record per facade/orchestrator call
  nextCall,            \* next unused call slot
  aborted,             \* AbortController.signal.aborted, per controller
  hasAutofill,         \* localStorage 'autofill-passkey.<username>' present
  currentCognitoUser,  \* facade field: pending OTP user (0 = null)
  spurious,            \* callbacks the provider delivered without a request
  apiCall,             \* a passkey-backend request that fails: what it throws
                       \* and the error LoginIDService.execute makes of it
  metaCall             \* the caller's options of one orchestrator call and the
                       \* client metadata the call builds from them

vars == <<variant, scenario, calls, nextCall, aborted, hasAutofill, currentCognitoUser, spurious, apiCall, metaCall>>

\* the JWT object of the last answered completion request (passkeyRegComplete,
\* passkeyAuthComplete); only registration may carry a deviceID
NoJwt == [jwtAccess |-> "", deviceID |-> ""]

NoCall ==
  [op |-> "none", type |-> "none", username |-> "", token |-> "", ctl |-> 0,
   fallback |-> FALSE, matchThreshold |-> NoThreshold, autoSignIn |-> FALSE,
   pc |-> "idle", req |-> 0, user |-> 0, outcome |-> Pending,
   sent |-> <<>>, nchal |-> 0, chal |-> "none", cb |-> "none", cbArg |-> "",
   settles |-> 0,
   initiated |-> 0, ceremonies |-> 0, backend |-> 0,
   fallbackCalls |-> <<>>, didAbort |-> FALSE, savedDevice |-> "",
   initRes |-> NoInitYet, thrown |-> "", jwt |-> NoJwt]

\* an exception leaves (or is caught inside) the async customChallenge handler
\* of r: thrown keeps the last one ("" = none so far)
Throw(r, e) == [r EXCEPT !.thrown = e]

\* Mutation of Settle: a later resolve/reject replaces the first outcome
Settle_overwrite(r, v) == [r EXCEPT !.outcome = v, !.settles = @ + 1]

\* ------------------------------------------------------- promise semantics
\* resolve/reject of the Promise created by the orchestrator: only the first
\* call settles the promise, later ones are ignored.
Settle(r, v) ==
  [r EXCEPT !.outcome = IF r.outcome.kind = "pending" THEN v ELSE r.outcome,
            !.settles = @ + 1]

\* Mutation of sendCustomChallengeAnswer: the client metadata is not passed
sendCustomChallengeAnswer_noMetadata(r, u, answer, authType) ==
  [r EXCEPT !.req = @ + 1,
            !.sent = Append(@, [user |-> u, answer |-> answer,
                                authentication_type |-> "",
                                tag |-> r.chal])]

\* user.sendCustomChallengeAnswer(answer, callbacks, clientMetadata) on the
\* session of user u: one more request in flight for the callbacks of r.
sendCustomChallengeAnswer(r, u, answer, authType) ==
  [r EXCEPT !.req = @ + 1,
            !.sent = Append(@, [user |-> u, answer |-> answer,
                                authentication_type |-> authType,
                                tag |-> r.chal])]

\* Mutation of AbortedAfter: the abort() call is missing
AbortedAfter_skip(r) == aborted

\* options.abortController && !options.abortController.signal.aborted -> abort()
AbortIfActive(r) == [r EXCEPT !.didAbort = (r.ctl # 0 /\ ~aborted[r.ctl]) \/ @]
AbortedAfter(r) == [k \in Controllers |-> aborted[k] \/ (k = r.ctl)]

InitFor(sc) ==
  /\ variant \in Variants
  /\ scenario = sc
  /\ calls = [c \in Calls |-> NoCall]
  /\ nextCall = 1
  /\ aborted = [k \in Controllers |-> FALSE]
  /\ hasAutofill = [u \in {toLowerCase(u) : u \in Usernames} |-> FALSE]
  /\ currentCognitoUser = 0
  /\ spurious = 0
  /\ apiCall = NoApiCall
  /\ metaCall = NoMetaCall

Init == InitFor("single")

\* the application makes its passkey calls concurrently, all with the same
\* options.abortController
InitShared == InitFor("shared")

\* Mutation of customAuthenticationPasskey: the switch has no default case and
\* authentication is initiated for every type
customAuthenticationPasskey_noDefault(c, username, token, type, ctl, fb, thr) ==
  [NoCall EXCEPT !.op = "passkey", !.type = type, !.username = username,
                 !.token = token, !.ctl = ctl, !.fallback = fb,
                 !.matchThreshold = thr, !.user = c, !.req = 1, !.initiated = 1]

\* ------------------------------------------------ customAuthenticationPasskey
\* The Promise executor: builds the user and the callbacks, then the switch on
\* type either calls user.initiateAuth or throws (which rejects the promise).
customAuthenticationPasskey(c, username, token, type, ctl, fb, thr) ==
  LET r0 == [NoCall EXCEPT !.op = "passkey", !.type = type, !.username = username,
                           !.token = token, !.ctl = ctl, !.fallback = fb,
                           !.matchThreshold = thr, !.user = c]
  IN IF type \in {FIDO2_CREATE, FIDO2_GET, ACCESS_JWT}
     THEN [r0 EXCEPT !.req = 1, !.initiated = 1]
     ELSE Settle(r0, Rejection("Error", "Invalid custom authentication type", "none"))

\* Mutation of callbackCreateObj.customChallenge: the AUTH_PARAMS branch is
\* missing, the handshake challenge is parsed like a substantive one
callbackCreateObj_customChallenge_noEcho(c, r, tag, pkValid) ==
  /\ calls' = [calls EXCEPT ![c] = [r EXCEPT !.pc = "create", !.ceremonies = @ + 1]]
  /\ aborted' = [k \in Controllers |-> aborted[k] \/ (k = r.ctl)]

\* Mutation of callbackCreateObj.customChallenge: the caller's token is sent as
\* the answer before the ceremony is started
callbackCreateObj_customChallenge_answerFirst(c, r, tag, pkValid) ==
  /\ calls' = [calls EXCEPT ![c] =
       [sendCustomChallengeAnswer(r, r.user, r.token, FIDO2_CREATE)
          EXCEPT !.pc = "create", !.ceremonies = @ + 1]]
  /\ aborted' = [k \in Controllers |-> aborted[k] \/ (k = r.ctl)]

\* callbackCreateObj.customChallenge up to its first await
callbackCreateObj_customChallenge(c, r, tag, pkValid) ==
  IF tag = AUTH_PARAMS
  THEN /\ calls' = [calls EXCEPT ![c] =
                      sendCustomChallengeAnswer(r, r.user, AUTH_PARAMS, FIDO2_CREATE)]
       /\ UNCHANGED aborted
  ELSE IF ~pkValid
  THEN \* JSON.parse(challengParams.public_key) throws: the async handler ends
       /\ calls' = [calls EXCEPT ![c] = Throw(r, "SyntaxError")]
       /\ UNCHANGED aborted
  ELSE /\ calls' = [calls EXCEPT ![c] =
                      [AbortIfActive(r) EXCEPT !.pc = "create", !.ceremonies = @ + 1]]
       /\ aborted' = AbortedAfter(r)

\* callbackGetObj.customChallenge up to its first await (passkeyAuthInit);
\* neither variant looks at the challenge parameters
callbackGetObj_customChallenge(c, r, tag, pkValid) ==
  /\ calls' = [calls EXCEPT ![c] = [r EXCEPT !.pc = "authInit", !.backend = @ + 1]]
  /\ UNCHANGED aborted

\* Mutation of callbackJWTObj.customChallenge: username sent for the token
callbackJWTObj_customChallenge_username(c, r, tag, pkValid) ==
  /\ calls' = [calls EXCEPT ![c] =
                 [r EXCEPT !.req = @ + 1,
                           !.sent = Append(@, [user |-> r.user, answer |-> r.username,
                                               authentication_type |-> ACCESS_JWT,
                                               tag |-> r.chal])]]
  /\ UNCHANGED aborted

\* callbackJWTObj.customChallenge: the AUTH_PARAMS echo is commented out
callbackJWTObj_customChallenge(c, r, tag, pkValid) ==
  /\ calls' = [calls EXCEPT ![c] =
                 sendCustomChallengeAnswer(r, r.user, r.token, ACCESS_JWT)]
  /\ UNCHANGED aborted

\* Mutation of onSuccess: every callback object resolves the user handle
callbackObj_onSuccess_user(r, s) ==
  [r EXCEPT !.outcome = IF r.outcome.kind = "pending" THEN UserValue(r.user) ELSE r.outcome,
            !.settles = @ + 1]

\* onSuccess: callbackEmailOTP resolves the user, every other callback object
\* resolves the session (session variant) or an AuthResult built from it
callbackObj_onSuccess(r, s) ==
  IF r.op = "otpInit"
  THEN Settle(r, UserValue(r.user))
  ELSE Settle(r, IF variant = "session" THEN SessionValue(s) ELSE AuthResultOfSession(s))

\* the provider library invokes callbacks.onSuccess(session)
DeliverSuccess(r, s) ==
  callbackObj_onSuccess([r EXCEPT !.cb = "onSuccess", !.cbArg = s], s)

\* Mutation of onFailure: the provider error is wrapped in a LoginidAPIError
callbackObj_onFailure_wrapped(r, e) == Settle(r, LoginidAPIError(e, "none"))

\* onFailure of every callback object: reject(err)
callbackObj_onFailure(r, e) == Settle(r, Rejection("provider", e, "none"))

\* the provider library invokes callbacks.onFailure(err)
DeliverFailure(r, e) ==
  callbackObj_onFailure([r EXCEPT !.cb = "onFailure", !.cbArg = e], e)

\* options.matchThreshold || DEFAULT_MATCH_THRESHOLD
match_threshold(r) ==
  IF r.matchThreshold = NoThreshold \/ r.matchThreshold = 0
  THEN DEFAULT_MATCH_THRESHOLD ELSE r.matchThreshold

\* session variant: !auth_init_result ||
\*   (auth_init_result.matchScore && auth_init_result.matchScore < match_threshold)
BelowThreshold(r, res) ==
  \/ ~res.present
  \/ (res.matchScore # NoScore /\ res.matchScore # 0 /\ res.matchScore < match_threshold(r))

\* AuthResult variant: !hasAutofill && auth_init_result.action !== 'proceed'
NotProceed(r, res) ==
  ~hasAutofill[toLowerCase(r.username)] /\ res.action # "proceed"

ErrorFallback == LoginidAPIError("no passkey detected", "ERROR_FALLBACK")

\* Mutation of StartGetCeremony: the ceremony is started without the abort
StartGetCeremony_noAbort(c, r) ==
  /\ calls' = [calls EXCEPT ![c] = [r EXCEPT !.pc = "get", !.ceremonies = @ + 1]]
  /\ UNCHANGED aborted

\* Mutation of StartGetCeremony: the ceremony is started only when the handler
\* itself could abort the controller
StartGetCeremony_ifAbortable(c, r) ==
  IF r.ctl # 0 /\ ~aborted[r.ctl]
  THEN /\ calls' = [calls EXCEPT ![c] =
                      [r EXCEPT !.pc = "get", !.ceremonies = @ + 1, !.didAbort = TRUE]]
       /\ aborted' = [k \in Controllers |-> aborted[k] \/ (k = r.ctl)]
  ELSE /\ calls' = [calls EXCEPT ![c] = r]
       /\ UNCHANGED aborted

\* abort the caller's controller, then start getNavigatorCredential
StartGetCeremony(c, r) ==
  /\ calls' = [calls EXCEPT ![c] =
                 [AbortIfActive(r) EXCEPT !.pc = "get", !.ceremonies = @ + 1]]
  /\ aborted' = AbortedAfter(r)

\* Mutation of callbackGetObj_catch: every caught error is handed on to the
\* caller as it is
callbackGetObj_catch_rethrow(r, code) ==
  Settle(Throw(r, code), LoginidAPIError("backend error", code))

\* the catch block of callbackGetObj.customChallenge for a LoginidAPIError
\* with the given msgCode; every other error is dropped
callbackGetObj_catch(r, code) ==
  IF code = "not_found"
  THEN IF variant = "session" /\ r.fallback
       THEN [Throw(r, code) EXCEPT
               !.fallbackCalls = Append(@, [username |-> r.username, methods |-> <<>>])]
       ELSE Settle(Throw(r, code), ErrorFallback)
  ELSE Throw(r, code)

\* Mutation of callbackGetObj_afterInit: the controller is aborted before the
\* init result is looked at
callbackGetObj_afterInit_abortFirst(c, r, res) ==
  IF \/ variant = "session" /\ BelowThreshold(r, res)
     \/ variant = "authresult" /\ NotProceed(r, res)
  THEN /\ calls' = [calls EXCEPT ![c] = Settle(AbortIfActive(r), ErrorFallback)]
       /\ aborted' = AbortedAfter(r)
  ELSE StartGetCeremony(c, r)

\* callbackGetObj.customChallenge after passkeyAuthInit returned res
callbackGetObj_afterInit(c, r, res) ==
  IF variant = "session"
  THEN IF BelowThreshold(r, res)
       THEN /\ UNCHANGED aborted
            /\ calls' = [calls EXCEPT ![c] =
                 IF r.fallback
                 THEN IF res.present
                      THEN [r EXCEPT !.fallbackCalls = Append(@,
                              [username |-> r.username,
                               methods |-> IF res.methods = Undefined THEN <<>> ELSE res.methods])]
                      \* auth_init_result.fallbackOptions on null throws a TypeError
                      ELSE callbackGetObj_catch(r, "TypeError")
                 ELSE Settle(r, ErrorFallback)]
       ELSE StartGetCeremony(c, r)
  ELSE IF ~hasAutofill[toLowerCase(r.username)] /\ ~res.present
       THEN \* auth_init_result.action on null throws a TypeError, dropped by catch
            /\ calls' = [calls EXCEPT ![c] = callbackGetObj_catch(r, "TypeError")]
            /\ UNCHANGED aborted
       ELSE IF NotProceed(r, res)
       THEN /\ calls' = [calls EXCEPT ![c] = Settle(r, AuthResultFallback(res.methods))]
            /\ UNCHANGED aborted
       ELSE StartGetCeremony(c, r)

\* --------------------------------------------------- customAuthenticationInit
\* The Promise executor of customAuthenticationInit: a new CognitoUser (named
\* by the call that creates it) and initiateAuth, or a throw on a wrong type.
customAuthenticationInit(c, username, type) ==
  LET r0 == [NoCall EXCEPT !.op = "otpInit", !.type = type, !.username = username,
                           !.user = c]
  IN IF type = EMAIL_OTP
     THEN [r0 EXCEPT !.req = 1, !.initiated = 1]
     ELSE Settle(r0, Rejection("Error", "Invalid custom authentication type", "none"))

\* Mutation of callbackEmailOTP.customChallenge: every challenge that is not
\* the handshake resolves the user
callbackEmailOTP_customChallenge_resolveAny(c, r, tag, pkValid) ==
  /\ calls' = [calls EXCEPT ![c] =
       IF tag = AUTH_PARAMS
       THEN sendCustomChallengeAnswer(r, r.user, AUTH_PARAMS, EMAIL_OTP)
       ELSE Settle(r, UserValue(r.user))]
  /\ UNCHANGED aborted

\* callbackEmailOTP.customChallenge
callbackEmailOTP_customChallenge(c, r, tag, pkValid) ==
  /\ calls' = [calls EXCEPT ![c] =
       IF tag = AUTH_PARAMS
       THEN sendCustomChallengeAnswer(r, r.user, AUTH_PARAMS, EMAIL_OTP)
       ELSE IF tag = EMAIL_OTP
       THEN Settle(r, UserValue(r.user))
       ELSE Settle(r, Rejection("Error", "Invalid custom challenge", "none"))]
  /\ UNCHANGED aborted

\* ----------------------------------------------- customAuthenticationComplete
\* The Promise executor of customAuthenticationComplete: the answer is sent on
\* the session of user with a fresh callback object.
customAuthenticationComplete(c, user, answer, type) ==
  sendCustomChallengeAnswer(
    [NoCall EXCEPT !.op = "otpComplete", !.type = type, !.user = user, !.chal = "otp"],
    user, answer, type)

\* callbackObj.customChallenge of customAuthenticationComplete ("Retry...")
callbackObj_customChallenge(c, r, tag, pkValid) ==
  /\ calls' = [calls EXCEPT ![c] =
       IF variant = "session"
       THEN Settle(r, NullValue)
       ELSE Settle(r, LoginidAPIError("error - please retry", "none"))]
  /\ UNCHANGED aborted

\* --------------------------------------------------------------------- signUp
\* Cognito.signUp up to the call of userPool.signUp; autoSignIn is a parameter
\* of the AuthResult variant only
signUp(c, email, autoSignIn) ==
  [NoCall EXCEPT !.op = "signUp", !.username = toLowerCase(email), !.user = c,
                 !.autoSignIn = autoSignIn, !.pc = "signUp"]

\* the callback handed to userPool.signUp: function (err, result)
signUp_callback(r, err, hasResult) ==
  IF err # "none"
  THEN Settle(r, Rejection("Error", err, "none"))
  ELSE IF ~hasResult
  THEN Settle(r, Rejection("Error", "error empty result", "none"))
  ELSE IF variant = "session"
  THEN Settle(r, UserValue(r.user))
  ELSE IF r.autoSignIn
  THEN \* result.user.authenticateUser(details, {onSuccess, onFailure})
       [r EXCEPT !.req = 1, !.initiated = 1]
  ELSE Settle(r, AuthResultSignedUp)

\* ------------------------------------------------------------ facade entries
\* signUpPasswordless / Cognito.signUp called by the application
SignUp ==
  /\ nextCall = 1 /\ scenario = "single"
  /\ \E email \in Usernames, autoSignIn \in BOOLEAN :
       /\ variant = "session" => ~autoSignIn
       /\ calls' = [calls EXCEPT ![nextCall] = signUp(nextCall, email, autoSignIn)]
  /\ nextCall' = nextCall + 1
  /\ UNCHANGED <<variant, scenario, aborted, hasAutofill, currentCognitoUser, spurious, apiCall, metaCall>>

\* the application calls the orchestrator itself with a member of the enum
\* CustomAuthentication that the called method has no case for
CustomAuthenticationPasskey_otherType ==
  /\ nextCall = 1 /\ scenario = "single"
  /\ \E u \in Usernames, type \in {EMAIL_OTP, AUTH_PARAMS} :
       calls' = [calls EXCEPT ![nextCall] =
                   customAuthenticationPasskey(nextCall, u, "tokA", type, 0, FALSE, NoThreshold)]
  /\ nextCall' = nextCall + 1
  /\ UNCHANGED <<variant, scenario, aborted, hasAutofill, currentCognitoUser, spurious, apiCall, metaCall>>

CustomAuthenticationInit_otherType ==
  /\ nextCall = 1 /\ scenario = "single"
  /\ \E u \in Usernames, type \in {FIDO2_CREATE, FIDO2_GET, ACCESS_JWT, AUTH_PARAMS} :
       calls' = [calls EXCEPT ![nextCall] = customAuthenticationInit(nextCall, toLowerCase(u), type)]
  /\ nextCall' = nextCall + 1
  /\ UNCHANGED <<variant, scenario, aborted, hasAutofill, currentCognitoUser, spurious, apiCall, metaCall>>

\* one passkey call per behaviour, or concurrent ones in the shared scenario
PasskeySlotFree ==
  IF scenario = "shared" THEN nextCall \in SharedSlots ELSE nextCall = 1

\* options.abortController of a passkey call (0 = none given)
CallerControllers ==
  IF scenario = "shared" THEN Controllers ELSE {0} \cup Controllers

\* Mutation of addPasskey: the orchestrator is called whether or not a token
\* was found
addPasskey_noTokenCheck(c, username, idToken, stored, ctl) ==
  customAuthenticationPasskey(c, username, IF idToken # "" THEN idToken ELSE stored,
                              FIDO2_CREATE, ctl, FALSE, NoThreshold)

\* LoginIDCognitoWebSDK.addPasskey: idToken "" = argument not given; stored is
\* what getCurrentCognitoIdToken() finds in localStorage ("" = null)
addPasskey(c, username, idToken, stored, ctl) ==
  LET token == IF idToken # "" THEN idToken ELSE stored IN
  IF token # ""
  THEN customAuthenticationPasskey(c, username, token, FIDO2_CREATE, ctl, FALSE, NoThreshold)
  ELSE Settle([NoCall EXCEPT !.op = "addPasskey", !.username = username, !.ctl = ctl],
              LoginidAPIError("not authorized", "none"))

\* a call of addPasskey by the application
AddPasskey ==
  /\ PasskeySlotFree
  /\ \E u \in Usernames, idToken \in {"", "tokA"}, stored \in StoredIdTokens,
        k \in CallerControllers :
       /\ idToken # "" => stored = ""     \* the stored token is not looked at
       /\ scenario = "shared" => idToken # ""
       /\ calls' = [calls EXCEPT ![nextCall] = addPasskey(nextCall, u, idToken, stored, k)]
  /\ nextCall' = nextCall + 1
  /\ UNCHANGED <<variant, scenario, aborted, hasAutofill, currentCognitoUser, spurious, apiCall, metaCall>>

\* LoginIDCognitoWebSDK.signInPasskey
SignInPasskey ==
  /\ PasskeySlotFree
  /\ \E u \in Usernames, k \in CallerControllers, fb \in BOOLEAN, thr \in Thresholds :
       \* options.fallback and options.matchThreshold exist in the session variant only
       /\ (variant = "authresult" \/ scenario = "shared") => (~fb /\ thr = NoThreshold)
       /\ calls' = [calls EXCEPT ![nextCall] =
                   customAuthenticationPasskey(nextCall, u, "", FIDO2_GET, k, fb, thr)]
  /\ nextCall' = nextCall + 1
  /\ UNCHANGED <<variant, scenario, aborted, hasAutofill, currentCognitoUser, spurious, apiCall, metaCall>>

\* LoginIDCognitoWebSDK.signInWithAccessToken (username parsed from the JWT)
SignInWithAccessToken ==
  /\ nextCall = 1 /\ scenario = "single"
  /\ \E u \in Usernames, t \in CallerTokens :
       calls' = [calls EXCEPT ![nextCall] =
                   customAuthenticationPasskey(nextCall, u, t, ACCESS_JWT, 0, FALSE, NoThreshold)]
  /\ nextCall' = nextCall + 1
  /\ UNCHANGED <<variant, scenario, aborted, hasAutofill, currentCognitoUser, spurious, apiCall, metaCall>>

\* the signal handed to a conditional-UI ceremony has been aborted
SignalAborted(r) == r.ctl # 0 /\ aborted[r.ctl]

\* Mutation of signInWithPasskeyAutofill: the ceremony is started before the
\* availability of conditional mediation is looked at
signInWithPasskeyAutofill_ceremonyFirst(c, ctl, isAvailable) ==
  IF isAvailable
  THEN [NoCall EXCEPT !.op = "autofill", !.ctl = ctl, !.user = c, !.pc = "autofill"]
  ELSE Settle([NoCall EXCEPT !.op = "autofill", !.ctl = ctl, !.pc = "autofill"],
              LoginidAPIError("not available", "none"))

\* LoginIDCognitoWebSDK.signInWithPasskeyAutofill up to its second await:
\* authenticateWithPasskey runs the conditional-UI ceremony on the signal of
\* options.abortController
signInWithPasskeyAutofill(c, ctl, isAvailable) ==
  IF isAvailable
  THEN [NoCall EXCEPT !.op = "autofill", !.ctl = ctl, !.user = c, !.pc = "autofill"]
  ELSE Settle([NoCall EXCEPT !.op = "autofill", !.ctl = ctl],
              LoginidAPIError("not available", "none"))

\* a call of signInWithPasskeyAutofill by the application
SignInWithPasskeyAutofill ==
  /\ PasskeySlotFree
  /\ \E k \in CallerControllers, isAvailable \in BOOLEAN :
       calls' = [calls EXCEPT ![nextCall] = signInWithPasskeyAutofill(nextCall, k, isAvailable)]
  /\ nextCall' = nextCall + 1
  /\ UNCHANGED <<variant, scenario, aborted, hasAutofill, currentCognitoUser, spurious, apiCall, metaCall>>

\* await this.lid.authenticateWithPasskey("", lidOptions) returns, and the
\* facade goes on to signInWithAccessToken, or throws, which rejects the
\* facade call; on an aborted signal the ceremony can only throw
AutofillReturns(c) ==
  /\ calls[c].pc = "autofill"
  /\ \/ /\ ~SignalAborted(calls[c])
        /\ \E u \in Usernames, jwt \in BackendJwts :
             calls' = [calls EXCEPT ![c] =
               customAuthenticationPasskey(c, u, jwt, ACCESS_JWT, calls[c].ctl, FALSE, NoThreshold)]
     \/ calls' = [calls EXCEPT ![c] =
            Settle([@ EXCEPT !.pc = "idle"],
                   Rejection("DOMException",
                             IF SignalAborted(calls[c]) THEN "AbortError" ELSE "NotAllowedError",
                             "none"))]
  /\ UNCHANGED <<variant, scenario, nextCall, aborted, hasAutofill, currentCognitoUser, spurious, apiCall, metaCall>>

\* A behaviour follows either one passkey call or a series of OTP calls
NoPasskeyCall ==
  /\ scenario = "single"
  /\ \A c \in Calls : calls[c].op \in {"none", "otpInit", "otpComplete"}

\* LoginIDCognitoWebSDK.initializeEmailOTP up to its await
InitializeEmailOTP ==
  /\ nextCall <= MaxOtpCalls /\ NoPasskeyCall
  /\ \E email \in OtpEmails :
       calls' = [calls EXCEPT ![nextCall] =
                   customAuthenticationInit(nextCall, toLowerCase(email), EMAIL_OTP)]
  /\ nextCall' = nextCall + 1
  /\ UNCHANGED <<variant, scenario, aborted, hasAutofill, currentCognitoUser, spurious, apiCall, metaCall>>

\* Mutation of initializeEmailOTP_continue: a rejected initialisation clears
\* the held user
initializeEmailOTP_continue_clearOnReject(old, new) ==
  IF old.op = "otpInit" /\ old.outcome.kind = "pending" /\ new.outcome.kind = "resolved"
  THEN new.outcome.user
  ELSE IF old.op = "otpInit" /\ old.outcome.kind = "pending" /\ new.outcome.kind = "rejected"
  THEN 0
  ELSE currentCognitoUser

\* LoginIDCognitoWebSDK.initializeEmailOTP after its await: when the promise
\* of customAuthenticationInit resolves (old pending, new resolved) the user is
\* stored in this.currentCognitoUser; a rejection leaves the field alone
initializeEmailOTP_continue(old, new) ==
  IF old.op = "otpInit" /\ old.outcome.kind = "pending" /\ new.outcome.kind = "resolved"
  THEN new.outcome.user
  ELSE currentCognitoUser

\* Mutation of completeEmailOTP: the null check of currentCognitoUser is missing
completeEmailOTP_nocheck(c, otp) ==
  customAuthenticationComplete(c, currentCognitoUser, otp, EMAIL_OTP)

\* LoginIDCognitoWebSDK.completeEmailOTP: throws (the async function's promise
\* rejects) when no user is held, else hands the held user to the orchestrator
completeEmailOTP(c, otp) ==
  IF currentCognitoUser = 0
  THEN Settle([NoCall EXCEPT !.op = "otpComplete", !.type = EMAIL_OTP],
              Rejection("Error", "No user initialized for email OTP", "none"))
  ELSE customAuthenticationComplete(c, currentCognitoUser, otp, EMAIL_OTP)

\* a call of completeEmailOTP by the application
CompleteEmailOTP ==
  /\ nextCall <= MaxOtpCalls /\ NoPasskeyCall
  /\ \E otp \in OtpCodes :
       calls' = [calls EXCEPT ![nextCall] = completeEmailOTP(nextCall, otp)]
  /\ nextCall' = nextCall + 1
  /\ UNCHANGED <<variant, scenario, aborted, hasAutofill, currentCognitoUser, spurious, apiCall, metaCall>>

\* ------------------------------------------------------- identity provider
\* dispatch of customChallenge(params) to the callback object of call c
DeliverChallenge(c, r0, tag, pkValid) ==
  LET r == [r0 EXCEPT !.nchal = @ + 1, !.chal = tag,
                      !.cb = "customChallenge", !.cbArg = tag] IN
  CASE r.op = "otpInit"      -> callbackEmailOTP_customChallenge(c, r, tag, pkValid)
    [] r.op = "otpComplete"  -> callbackObj_customChallenge(c, r, tag, pkValid)
    [] r.type = FIDO2_CREATE -> callbackCreateObj_customChallenge(c, r, tag, pkValid)
    [] r.type = FIDO2_GET    -> callbackGetObj_customChallenge(c, r, tag, pkValid)
    [] r.type = ACCESS_JWT   -> callbackJWTObj_customChallenge(c, r, tag, pkValid)

\* the tags the provider sends: EMAIL_OTP, and the tag of another flow, only
\* to customAuthenticationInit; the
\* customChallenge of customAuthenticationComplete takes no parameters
TagsFor(r) ==
  CASE r.op = "passkey"     -> ChallengeTags
    [] r.op = "otpComplete" -> {"absent"}
    [] OTHER                -> ChallengeTags \cup {EMAIL_OTP, FIDO2_GET}

\* whether challengeParams.public_key parses; only FIDO2_CREATE reads it
PublicKeyValidFor(r) == IF r.type = FIDO2_CREATE THEN BOOLEAN ELSE {TRUE}

\* the provider answers an outstanding request with customChallenge(params)
ProviderChallenge(c) ==
  /\ calls[c].req > 0 /\ calls[c].nchal < MaxChallenges
  /\ calls[c].op # "signUp"    \* authenticateUser is given no customChallenge
  /\ \E tag \in TagsFor(calls[c]), pkValid \in PublicKeyValidFor(calls[c]) :
       DeliverChallenge(c, [calls[c] EXCEPT !.req = @ - 1], tag, pkValid)
  /\ currentCognitoUser' = initializeEmailOTP_continue(calls[c], calls'[c])
  /\ UNCHANGED <<variant, scenario, nextCall, hasAutofill, spurious, apiCall, metaCall>>
\* the provider answers an outstanding request with onSuccess(session)
ProviderSuccess(c) ==
  /\ calls[c].req > 0
  /\ \E s \in Sessions :
       calls' = [calls EXCEPT ![c] = DeliverSuccess([calls[c] EXCEPT !.req = @ - 1], s)]
  /\ currentCognitoUser' = initializeEmailOTP_continue(calls[c], calls'[c])
  /\ UNCHANGED <<variant, scenario, nextCall, aborted, hasAutofill, spurious, apiCall, metaCall>>

\* the provider answers an outstanding request with onFailure(err)
ProviderFailure(c) ==
  /\ calls[c].req > 0
  /\ \E e \in ProviderErrors :
       calls' = [calls EXCEPT ![c] = DeliverFailure([calls[c] EXCEPT !.req = @ - 1], e)]
  /\ currentCognitoUser' = initializeEmailOTP_continue(calls[c], calls'[c])
  /\ UNCHANGED <<variant, scenario, nextCall, aborted, hasAutofill, spurious, apiCall, metaCall>>

\* userPool.signUp invokes its callback with an error, with no result or
\* with a result
SignUpReturns(c) ==
  /\ calls[c].pc = "signUp"
  /\ LET r == [calls[c] EXCEPT !.pc = "idle"] IN
       \/ \E e \in ProviderErrors : calls' = [calls EXCEPT ![c] = signUp_callback(r, e, FALSE)]
       \/ \E hasResult \in BOOLEAN :
            calls' = [calls EXCEPT ![c] = signUp_callback(r, "none", hasResult)]
  /\ UNCHANGED <<variant, scenario, nextCall, aborted, hasAutofill, currentCognitoUser, spurious, apiCall, metaCall>>

\* ---------------------------------------------- continuations after an await
\* await lidService.passkeyAuthInit(...) returns a result or throws
AuthInitReturns(c) ==
  /\ calls[c].pc = "authInit"
  /\ LET r == [calls[c] EXCEPT !.pc = "idle"] IN
       \/ \E res \in InitResults(variant) :
            callbackGetObj_afterInit(c, [r EXCEPT !.initRes = res], res)
       \/ \E code \in BackendErrorCodes :
            /\ calls' = [calls EXCEPT ![c] = callbackGetObj_catch(r, code)]
            /\ UNCHANGED aborted
  /\ UNCHANGED <<variant, scenario, nextCall, hasAutofill, currentCognitoUser, spurious, apiCall, metaCall>>

\* await getNavigatorCredential(...) returns an assertion or throws; on
\* success passkeyAuthComplete is called, a thrown error lands in the catch
\* block, which drops everything that is not a LoginidAPIError
GetCeremonyReturns(c) ==
  /\ calls[c].pc = "get"
  /\ \/ calls' = [calls EXCEPT ![c] = [@ EXCEPT !.pc = "authComplete", !.backend = @ + 1]]
     \/ calls' = [calls EXCEPT ![c] =
                   callbackGetObj_catch([@ EXCEPT !.pc = "idle"], "NotAllowedError")]
  /\ UNCHANGED <<variant, scenario, nextCall, aborted, hasAutofill, currentCognitoUser, spurious, apiCall, metaCall>>

\* await lidService.passkeyAuthComplete(...) returns a JWT or throws
AuthCompleteReturns(c) ==
  /\ calls[c].pc = "authComplete"
  /\ LET r == [calls[c] EXCEPT !.pc = "idle"] IN
       \/ \E jwt \in BackendJwts :
            calls' = [calls EXCEPT ![c] =
              sendCustomChallengeAnswer(
                [r EXCEPT !.jwt = [jwtAccess |-> jwt, deviceID |-> ""]],
                r.user, jwt, FIDO2_GET)]
       \/ \E code \in BackendErrorCodes :
            calls' = [calls EXCEPT ![c] = callbackGetObj_catch(r, code)]
  /\ UNCHANGED <<variant, scenario, nextCall, aborted, hasAutofill, currentCognitoUser, spurious, apiCall, metaCall>>

\* await createNavigatorCredential(init) returns a credential or throws; on
\* success passkeyRegComplete is called, a thrown error ends the async handler
CreateCeremonyReturns(c) ==
  /\ calls[c].pc = "create"
  /\ \/ calls' = [calls EXCEPT ![c] = [@ EXCEPT !.pc = "regComplete", !.backend = @ + 1]]
     \/ calls' = [calls EXCEPT ![c] = Throw([@ EXCEPT !.pc = "idle"], "NotAllowedError")]
  /\ UNCHANGED <<variant, scenario, nextCall, aborted, hasAutofill, currentCognitoUser, spurious, apiCall, metaCall>>

\* await lidService.passkeyRegComplete(publicKey) returns {jwtAccess, deviceID}
\* or throws; deviceID "" stands for an absent deviceID.  The handler has no
\* catch, so one error stands for all
RegCompleteReturns(c) ==
  /\ calls[c].pc = "regComplete"
  /\ LET r == [calls[c] EXCEPT !.pc = "idle"] IN
       \/ \E jwt \in BackendJwts, deviceID \in {"", "dev1"} :
            calls' = [calls EXCEPT ![c] =
              sendCustomChallengeAnswer(
                [r EXCEPT !.jwt = [jwtAccess |-> jwt, deviceID |-> deviceID],
                          !.savedDevice = IF deviceID # "" THEN deviceID ELSE @],
                r.user, jwt, FIDO2_CREATE)]
       \/ calls' = [calls EXCEPT ![c] = Throw(r, "internal")]
  /\ UNCHANGED <<variant, scenario, nextCall, aborted, hasAutofill, currentCognitoUser, spurious, apiCall, metaCall>>

\* LoginIDService.saveHasAutofill(username)
saveHasAutofill(username) == [hasAutofill EXCEPT ![toLowerCase(username)] = TRUE]

\* autofill usage of the user of a sign-in is recorded.  Nothing in the SDK
\* calls saveHasAutofill and only the FIDO2_GET handler of the AuthResult
\* variant reads the record, after the first challenge: a record made at any
\* earlier time is the same as one made before that challenge.
SaveHasAutofill(c) ==
  /\ calls[c].op = "passkey" /\ calls[c].type = FIDO2_GET /\ calls[c].nchal = 0
  /\ ~hasAutofill[toLowerCase(calls[c].username)]
  /\ hasAutofill' = saveHasAutofill(calls[c].username)
  /\ UNCHANGED <<variant, scenario, calls, nextCall, aborted, currentCognitoUser, spurious, apiCall, metaCall>>

\* the caller aborts the AbortController it has handed to a call
CallerAbort(k) ==
  /\ ~aborted[k]
  /\ \E c \in Calls : calls[c].ctl = k
  /\ aborted' = [aborted EXCEPT ![k] = TRUE]
  /\ UNCHANGED <<variant, scenario, calls, nextCall, hasAutofill, currentCognitoUser, spurious, apiCall, metaCall>>

\* a callback delivered although no request is outstanding (a provider that
\* does not keep to one callback per request); only between handler runs
SpuriousCallback(c) ==
  /\ calls[c].op = "passkey" /\ calls[c].initiated > 0 /\ calls[c].pc = "idle"
  /\ calls[c].req = 0
  /\ spurious < MaxSpurious
  /\ spurious' = spurious + 1
  /\ \/ /\ \E tag \in ChallengeTags, pkValid \in PublicKeyValidFor(calls[c]) :
             DeliverChallenge(c, calls[c], tag, pkValid)
     \/ /\ \E s \in Sessions : calls' = [calls EXCEPT ![c] = DeliverSuccess(calls[c], s)]
        /\ UNCHANGED aborted
     \/ /\ \E e \in ProviderErrors : calls' = [calls EXCEPT ![c] = DeliverFailure(calls[c], e)]
        /\ UNCHANGED aborted
  /\ UNCHANGED <<variant, scenario, nextCall, hasAutofill, currentCognitoUser, apiCall, metaCall>>

\* the passkey operations of the facade and everything that answers them
PasskeyNext ==
  \/ AddPasskey
  \/ SignInPasskey
  \/ SignInWithPasskeyAutofill
  \/ \E c \in Calls : AutofillReturns(c)
  \/ \E c \in Calls : ProviderChallenge(c)
  \/ \E c \in Calls : ProviderSuccess(c)
  \/ \E c \in Calls : ProviderFailure(c)
  \/ \E c \in Calls : AuthInitReturns(c)
  \/ \E c \in Calls : GetCeremonyReturns(c)
  \/ \E c \in Calls : AuthCompleteReturns(c)
  \/ \E c \in Calls : CreateCeremonyReturns(c)
  \/ \E c \in Calls : RegCompleteReturns(c)
  \/ \E k \in Controllers : CallerAbort(k)

Next ==
  \/ PasskeyNext
  \/ \E c \in Calls : SaveHasAutofill(c)
  \/ SignInWithAccessToken
  \/ SignUp
  \/ \E c \in Calls : SignUpReturns(c)
  \/ CustomAuthenticationPasskey_otherType
  \/ CustomAuthenticationInit_otherType
  \/ InitializeEmailOTP
  \/ CompleteEmailOTP

Spec == Init /\ [][Next]_vars

\* one passkey call, of a user without an autofill record, with a provider
\* that may deliver callbacks nobody asked for
NextLoose ==
  \/ PasskeyNext
  \/ SignInWithAccessToken
  \/ \E c \in Calls : SpuriousCallback(c)

SpecLoose == Init /\ [][NextLoose]_vars

\* concurrent passkey calls of one caller session, all made with the same
\* options.abortController, for a user without an autofill record
SpecShared == InitShared /\ [][PasskeyNext]_vars

\* ------------------------------------------------ a well-behaved environment
\* an answer the provider accepts as a valid token
ValidToken(answer) == answer \in CallerTokens \cup BackendJwts

\* the last answer call c has sent ("" = none yet)
LastAnswer(r) == IF r.sent = <<>> THEN "" ELSE r.sent[Len(r.sent)].answer

\* A provider that keeps to the custom-auth protocol: to every request it
\* answers with one callback; it sends AUTH_PARAMS handshakes, fewer than
\* MaxChallenges, then one substantive challenge with a public key that
\* parses, and it answers a valid token with onSuccess.
WellBehavedProvider(c) ==
  /\ calls[c].op = "passkey" /\ calls[c].req > 0
  /\ LET r == [calls[c] EXCEPT !.req = @ - 1] IN
       \/ /\ calls[c].chal # "absent" /\ calls[c].nchal < MaxChallenges - 1
          /\ DeliverChallenge(c, r, AUTH_PARAMS, TRUE)
       \/ /\ calls[c].chal # "absent" /\ calls[c].nchal < MaxChallenges
          /\ DeliverChallenge(c, r, "absent", TRUE)
       \/ /\ ValidToken(LastAnswer(calls[c]))
          /\ \E s \in Sessions : calls' = [calls EXCEPT ![c] = DeliverSuccess(r, s)]
          /\ UNCHANGED aborted
  /\ UNCHANGED <<variant, scenario, nextCall, hasAutofill, currentCognitoUser, spurious, apiCall, metaCall>>

\* passkeyAuthInit returns a result with which the handler goes on to the
\* ceremony (the proceed branch)
AuthInitProceeds(c) == AuthInitReturns(c) /\ calls'[c].pc = "get"

\* the WebAuthn ceremonies and the backend calls return successfully
GetCeremonySucceeds(c) == GetCeremonyReturns(c) /\ calls'[c].pc = "authComplete"
AuthCompleteSucceeds(c) == AuthCompleteReturns(c) /\ calls'[c].req = calls[c].req + 1
CreateCeremonySucceeds(c) == CreateCeremonyReturns(c) /\ calls'[c].pc = "regComplete"
RegCompleteSucceeds(c) == RegCompleteReturns(c) /\ calls'[c].req = calls[c].req + 1

\* the environment's part: everything that answers a call
WellBehavedEnv ==
  \/ \E c \in Calls : WellBehavedProvider(c)
  \/ \E c \in Calls : AuthInitProceeds(c)
  \/ \E c \in Calls : GetCeremonySucceeds(c)
  \/ \E c \in Calls : AuthCompleteSucceeds(c)
  \/ \E c \in Calls : CreateCeremonySucceeds(c)
  \/ \E c \in Calls : RegCompleteSucceeds(c)

NextWellBehaved ==
  \/ AddPasskey
  \/ SignInPasskey
  \/ SignInWithAccessToken
  \/ WellBehavedEnv

\* one passkey call with an environment that answers every request, every
\* ceremony and every backend call, and never fails
SpecFair == Init /\ [][NextWellBehaved]_vars /\ WF_vars(WellBehavedEnv)

\* ------------------------------------------- a failing backend request alone
\* a request of LoginIDService (passkeyAuthInit, passkeyAuthComplete,
\* passkeyRegComplete, ...) is about to fail with some payload
InitErrors ==
  /\ variant \in Variants
  /\ scenario = "single"
  /\ calls = [c \in Calls |-> NoCall]
  /\ nextCall = 1
  /\ aborted = [k \in Controllers |-> FALSE]
  /\ hasAutofill = [u \in {toLowerCase(u) : u \in Usernames} |-> FALSE]
  /\ currentCognitoUser = 0
  /\ spurious = 0
  /\ apiCall \in [baseUrlSet : BOOLEAN, payload : Payloads, error : {Pending}]
  /\ metaCall = NoMetaCall

\* the request runs inside execute and its error leaves execute
ExecuteThrows ==
  /\ apiCall.error = Pending
  /\ apiCall' = [apiCall EXCEPT !.error = execute(apiCall.baseUrlSet, apiCall.payload)]
  /\ UNCHANGED <<variant, scenario, calls, nextCall, aborted, hasAutofill,
                 currentCognitoUser, spurious, metaCall>>

SpecErrors == InitErrors /\ [][ExecuteThrows]_vars

\* ------------------------------------------- the client metadata alone
\* an orchestrator call of some mode is made with some caller options
InitMetadata ==
  /\ variant \in Variants
  /\ scenario = "single"
  /\ calls = [c \in Calls |-> NoCall]
  /\ nextCall = 1
  /\ aborted = [k \in Controllers |-> FALSE]
  /\ hasAutofill = [u \in {toLowerCase(u) : u \in Usernames} |-> FALSE]
  /\ currentCognitoUser = 0
  /\ spurious = 0
  /\ apiCall = NoApiCall
  /\ \E m \in MetaModes, o \in CallerOptions, t \in CallerTokens :
       metaCall = [mode |-> m.mode, type |-> m.type, token |-> t, options |-> o,
                   built |-> FALSE, clientMetadata |-> EmptyObject]

\* the call builds the client metadata of an answer
BuildClientMetadata ==
  /\ ~metaCall.built
  /\ metaCall' = [metaCall EXCEPT !.built = TRUE,
                                  !.clientMetadata = clientMetadataOf(metaCall)]
  /\ UNCHANGED <<variant, scenario, calls, nextCall, aborted, hasAutofill,
                 currentCognitoUser, spurious, apiCall>>

SpecMetadata == InitMetadata /\ [][BuildClientMetadata]_vars

TypeOK ==
  /\ variant \in Variants
  /\ scenario \in {"single", "shared"}
  /\ nextCall \in 1..(MaxOtpCalls + 1)
  /\ \A c \in Calls : calls[c].outcome.kind \in {"pending", "resolved", "rejected"}
\* ===================================================================== claims
IsPasskey(c, mode) == calls[c].op = "passkey" /\ calls[c].type = mode

\* the threshold as the specification defines it: options.matchThreshold when
\* given, otherwise the default
ClaimThreshold(r) ==
  IF r.matchThreshold = NoThreshold THEN DEFAULT_MATCH_THRESHOLD ELSE r.matchThreshold

\* the first passkeyAuthInit of call c has returned a result whose match score
\* is below the threshold, and the handler has run on from there
InitBelowThreshold(c) ==
  /\ IsPasskey(c, FIDO2_GET) /\ calls[c].nchal = 1
  /\ calls[c].initRes.present
  /\ calls[c].initRes.matchScore # NoScore
  /\ calls[c].initRes.matchScore < ClaimThreshold(calls[c])

OfferedMethods(res) == IF res.methods = Undefined THEN <<>> ELSE res.methods

\* terminal outcomes call c has delivered to its caller: the settled promise
\* and every invocation of the caller's fallback handler
Delivered(c) ==
  (IF calls[c].outcome.kind # "pending" THEN 1 ELSE 0) + Len(calls[c].fallbackCalls)

C2_EveryCallSettles ==
  \A c \in Calls :
    (calls[c].op = "passkey" /\ calls[c].req = 0 /\ calls[c].pc = "idle")
      => calls[c].outcome.kind # "pending"

\* C3: FIDO2_GET, init result below the threshold, no fallback handler: the
\* call rejects with LoginidAPIError ERROR_FALLBACK and no WebAuthn get
\* ceremony is started.
C3_LowScoreRejects ==
  \A c \in Calls :
    (variant = "session" /\ InitBelowThreshold(c) /\ ~calls[c].fallback)
      => /\ calls[c].outcome = ErrorFallback
         /\ calls[c].ceremonies = 0

\* C4: FIDO2_GET, init result below the threshold, fallback handler
\* registered: the call resolves with isFallback=true and no tokens, and the
\* handler was invoked with the username and the offered fallback methods.
C4_LowScoreFallback ==
  \A c \in Calls :
    (InitBelowThreshold(c) /\ calls[c].fallback)
      => /\ calls[c].outcome.kind = "resolved"
         /\ calls[c].outcome.isFallback /\ ~calls[c].outcome.isAuthenticated
         /\ calls[c].outcome.idToken = "" /\ calls[c].outcome.accessToken = ""
         /\ calls[c].fallbackCalls =
              <<[username |-> calls[c].username,
                 methods |-> OfferedMethods(calls[c].initRes)]>>

\* C5: in FIDO2_CREATE the create ceremony never runs while the caller's
\* abort controller is still un-aborted: the controller is aborted before
\* createNavigatorCredential is invoked.
C5_AbortBeforeCreate ==
  \A c \in Calls :
    (IsPasskey(c, FIDO2_CREATE) /\ calls[c].ctl # 0 /\ calls[c].pc = "create")
      => aborted[calls[c].ctl]

\* the create ceremony runs and this handler run aborted the controller itself
C5_Witness ==
  \E c \in Calls :
    IsPasskey(c, FIDO2_CREATE) /\ calls[c].pc = "create" /\ calls[c].didAbort

\* the handshake as the specification describes it, for one call record: every
\* answer to an AUTH_PARAMS challenge is the sentinel, and while the last
\* challenge is AUTH_PARAMS it has been answered by the echo, no backend call
\* or ceremony runs and, until the provider reacts, nothing is settled
EchoesHandshake(r) ==
  /\ \A i \in 1..Len(r.sent) :
       r.sent[i].tag = AUTH_PARAMS => r.sent[i].answer = AUTH_PARAMS
  /\ r.chal = AUTH_PARAMS =>
       /\ r.pc = "idle"
       /\ Len(r.sent) > 0
       /\ r.sent[Len(r.sent)].tag = AUTH_PARAMS
       /\ r.req > 0 => r.outcome.kind = "pending"

C7_JwtPassThrough ==
  \A c \in Calls :
    IsPasskey(c, ACCESS_JWT) =>
      /\ \A i \in 1..Len(calls[c].sent) :
           calls[c].sent[i].tag # AUTH_PARAMS => calls[c].sent[i].answer = calls[c].token
      /\ calls[c].backend = 0
      /\ calls[c].ceremonies = 0

\* an ACCESS_JWT call has answered a substantive challenge
C7_Witness ==
  \E c \in Calls :
    /\ IsPasskey(c, ACCESS_JWT)
    /\ \E i \in 1..Len(calls[c].sent) : calls[c].sent[i].tag = "absent"

NoInitSucceeded ==
  \A c \in Calls : calls[c].op = "otpInit" => calls[c].outcome.kind # "resolved"

\* C8: while no initializeEmailOTP has completed successfully, every
\* completeEmailOTP fails with "No user initialized for email OTP" and sends
\* no challenge answer.
C8_CompleteWithoutInit ==
  NoInitSucceeded =>
    \A c \in Calls :
      calls[c].op = "otpComplete" =>
        /\ calls[c].outcome = Rejection("Error", "No user initialized for email OTP", "none")
        /\ calls[c].sent = <<>>
        /\ calls[c].req = 0

\* completeEmailOTP was called while an initializeEmailOTP was still pending
C8_Witness ==
  /\ NoInitSucceeded
  /\ \E c \in Calls : calls[c].op = "otpComplete"
  /\ \E c \in Calls : calls[c].op = "otpInit"

\* an authenticated result carrying the tokens of provider session s
AuthenticatedWith(o, s) ==
  /\ o.kind = "resolved"
  /\ o.session = s /\ o.idToken = idTokenOf(s) /\ o.accessToken = accessTokenOf(s)
  /\ \/ o.shape = "session"
     \/ o.shape = "authresult" /\ o.isAuthenticated /\ ~o.isFallback

\* C9: a completeEmailOTP on a held user whose answer the provider accepts
\* (onSuccess) resolves with an authenticated result carrying the provider
\* session's tokens.
C9_CorrectOtpAuthenticates ==
  \A c \in Calls :
    (calls[c].op = "otpComplete" /\ calls[c].cb = "onSuccess")
      => AuthenticatedWith(calls[c].outcome, calls[c].cbArg)

\* the provider has accepted the answer of a completeEmailOTP
C9_Witness ==
  \E c \in Calls :
    /\ calls[c].op = "otpComplete" /\ calls[c].cb = "onSuccess"
    /\ calls[c].user # 0 /\ calls[calls[c].user].outcome.kind = "resolved"

\* C10: when the provider answers the OTP with customChallenge again, the
\* completion call rejects with a retry error; it neither resolves nor stays
\* pending.
C10_RetryRejects ==
  \A c \in Calls :
    (calls[c].op = "otpComplete" /\ calls[c].cb = "customChallenge")
      => /\ calls[c].outcome.kind = "rejected"
         /\ calls[c].outcome.errClass = "LoginidAPIError"

\* C11: no AuthResult a call has settled with has both isAuthenticated and
\* isFallback true.
C11_NeverBothFlags ==
  \A c \in Calls :
    calls[c].outcome.shape = "authresult"
      => ~(calls[c].outcome.isAuthenticated /\ calls[c].outcome.isFallback)

\* a call has resolved with the fallback AuthResult
C11_Witness ==
  \E c \in Calls :
    /\ calls[c].outcome.kind = "resolved" /\ calls[c].outcome.shape = "authresult"
    /\ calls[c].outcome.isFallback

\* C12: every AuthResult a call resolves with is either authenticated with
\* non-empty idToken and accessToken, or a fallback with a list of fallback
\* options; never both flags false, never a fallback without options.
C12_NoEmptySuccess ==
  \A c \in Calls :
    (calls[c].outcome.kind = "resolved" /\ calls[c].outcome.shape = "authresult")
      => \/ /\ calls[c].outcome.isAuthenticated
            /\ calls[c].outcome.idToken # "" /\ calls[c].outcome.accessToken # ""
         \/ /\ calls[c].outcome.isFallback
            /\ calls[c].outcome.fallbackOptions # Undefined

\* the call was made with a type its method has no case for
InvalidType(r) ==
  \/ r.op = "passkey" /\ r.type \notin {FIDO2_CREATE, FIDO2_GET, ACCESS_JWT}
  \/ r.op = "otpInit" /\ r.type # EMAIL_OTP

\* C13: customAuthenticationPasskey with a mode outside FIDO2_CREATE,
\* FIDO2_GET, ACCESS_JWT, and customAuthenticationInit with a mode other than
\* EMAIL_OTP, fail with "Invalid custom authentication type" and never call
\* initiateAuth.
C13_InvalidTypeRejected ==
  \A c \in Calls :
    InvalidType(calls[c])
      => /\ calls[c].outcome = Rejection("Error", "Invalid custom authentication type", "none")
         /\ calls[c].initiated = 0 /\ calls[c].req = 0 /\ calls[c].sent = <<>>

\* customAuthenticationPasskey was called with EMAIL_OTP
C13_Witness ==
  \E c \in Calls : calls[c].op = "passkey" /\ calls[c].type = EMAIL_OTP

\* C14: when the provider invokes onFailure(err) on a call that has not
\* settled, the call rejects with exactly err, and from then on the call sends
\* no further challenge answer.
C14_FailurePropagates ==
  [][\A c \in Calls :
       /\ (calls'[c].cb = "onFailure" /\ calls'[c].settles = calls[c].settles + 1
              /\ calls[c].outcome.kind = "pending")
            => /\ calls'[c].outcome = Rejection("provider", calls'[c].cbArg, "none")
               /\ calls'[c].sent = calls[c].sent
       /\ calls[c].cb = "onFailure" => calls'[c].sent = calls[c].sent]_vars

\* onFailure arrived after the call had sent a challenge answer
C14_Witness ==
  \E c \in Calls :
    /\ calls[c].cb = "onFailure" /\ calls[c].outcome.kind = "rejected"
    /\ calls[c].sent # <<>>

\* a WebAuthn ceremony of the call is in progress: the WebAuthn call has not
\* returned and, where the ceremony runs on a signal, the signal is not aborted
CeremonyActive(r) ==
  \/ r.pc \in {"create", "get"}
  \/ r.pc = "autofill" /\ ~SignalAborted(r)

\* C15: among the calls made with the same options.abortController at most
\* one WebAuthn ceremony is active at any time.
C15_OneActiveCeremony ==
  \A c1, c2 \in Calls :
    (c1 # c2 /\ calls[c1].ctl # 0 /\ calls[c1].ctl = calls[c2].ctl)
      => ~(CeremonyActive(calls[c1]) /\ CeremonyActive(calls[c2]))

\* the application calls completeEmailOTP in this step, in call slot c
CompleteCalled(c) == calls[c].op = "none" /\ calls'[c].op = "otpComplete"

\* initializeEmailOTP calls made before slot c that have succeeded
SucceededInits(c) ==
  {i \in Calls : i < c /\ calls[i].op = "otpInit" /\ calls[i].outcome.kind = "resolved"}

\* C16: last initializeEmailOTP wins: when initializeEmailOTP was called for A
\* and then for B and both have succeeded, in whichever order the provider
\* answered, a following completeEmailOTP sends its answer on B's session.
C16_LastInitWins ==
  [][\A c \in Calls :
       (CompleteCalled(c) /\ Cardinality(SucceededInits(c)) >= 2)
         => \A i \in 1..Len(calls'[c].sent) :
              \A a \in SucceededInits(c) : a <= calls'[c].sent[i].user]_vars

\* C17: after a completeEmailOTP that succeeded, a further completeEmailOTP
\* without a new initializeEmailOTP in between fails with "No user initialized
\* for email OTP" and sends no answer on the old session.
C17_PendingUserDiscarded ==
  [][\A c \in Calls :
       (/\ CompleteCalled(c)
        /\ \E d \in Calls :
             /\ d < c /\ calls[d].op = "otpComplete" /\ calls[d].cb = "onSuccess"
             /\ \A i \in Calls : (d < i /\ i < c) => calls[i].op # "otpInit")
         => /\ calls'[c].outcome = Rejection("Error", "No user initialized for email OTP", "none")
            /\ calls'[c].sent = <<>>]_vars

\* C18: addPasskey with no idToken argument and no stored Cognito id token
\* rejects with LoginidAPIError "not authorized" and starts no provider
\* session, no WebAuthn ceremony and no backend request.
C18_AddPasskeyNotAuthorized ==
  \A c \in Calls :
    ((calls[c].op = "addPasskey" \/ IsPasskey(c, FIDO2_CREATE)) /\ calls[c].token = "")
      => /\ calls[c].outcome = LoginidAPIError("not authorized", "none")
         /\ calls[c].initiated = 0 /\ calls[c].req = 0 /\ calls[c].sent = <<>>
         /\ calls[c].ceremonies = 0 /\ calls[c].backend = 0 /\ calls[c].pc = "idle"

\* addPasskey was called without a token and none was stored
C18_Witness ==
  \E c \in Calls : calls[c].op = "addPasskey" /\ calls[c].outcome.kind = "rejected"

\* C19: every challenge answer sent to the identity provider carries client
\* metadata whose authentication_type is the mode of the call that sends it.
C19_AnswerStampedWithMode ==
  \A c \in Calls :
    \A i \in 1..Len(calls[c].sent) :
      calls[c].sent[i].authentication_type = calls[c].type

\* a handshake echo, a token hand-off and an OTP answer have been sent
C19_Witness ==
  /\ \E c \in Calls : \E i \in 1..Len(calls[c].sent) :
       calls[c].op = "otpInit" /\ calls[c].sent[i].answer = AUTH_PARAMS
  /\ \E c \in Calls : calls[c].op = "otpComplete" /\ calls[c].sent # <<>>

\* C20: FIDO2_GET, no fallback handler, no recorded autofill usage: for every
\* match score s with 0 <= s < threshold (options.matchThreshold when given,
\* otherwise 80) the call rejects with the fallback error and the WebAuthn
\* get ceremony is never invoked.
C20_EveryScoreBelowThresholdRejects ==
  \A c \in Calls :
    \A s \in 0..(ClaimThreshold(calls[c]) - 1) :
      (/\ variant = "session" /\ IsPasskey(c, FIDO2_GET) /\ calls[c].nchal = 1
       /\ ~calls[c].fallback /\ ~hasAutofill[toLowerCase(calls[c].username)]
       /\ calls[c].initRes.present /\ calls[c].initRes.matchScore = s)
        => /\ calls[c].outcome = ErrorFallback
           /\ calls[c].pc # "get" /\ calls[c].ceremonies = 0
\* C21: FIDO2_GET with recorded autofill usage: an init result that is below
\* the threshold (or not marked to proceed) does not take the fallback or
\* rejection branch; the WebAuthn get ceremony is invoked.
C21_AutofillSkipsFallback ==
  \A c \in Calls :
    (/\ IsPasskey(c, FIDO2_GET) /\ calls[c].nchal = 1
     /\ hasAutofill[toLowerCase(calls[c].username)]
     /\ calls[c].initRes.present
     /\ \/ variant = "session" /\ InitBelowThreshold(c)
        \/ variant = "authresult" /\ calls[c].initRes.action # "proceed")
      => calls[c].ceremonies = 1
\* passkeyAuthInit of the first challenge of call c returned null and the
\* handler has run on from there
InitReturnedNull(c) ==
  /\ IsPasskey(c, FIDO2_GET) /\ calls[c].nchal = 1
  /\ calls[c].initRes = NullInit

\* C22: FIDO2_GET, passkeyAuthInit yields no result: with a fallback handler
\* registered the handler is invoked with the username and an empty fallback
\* list and no ceremony is started; with no handler the call rejects with the
\* fallback error.
C22_NoInitResultFallsBack ==
  \A c \in Calls :
    (InitReturnedNull(c) /\ ~hasAutofill[toLowerCase(calls[c].username)])
      => /\ calls[c].ceremonies = 0
         /\ IF calls[c].fallback
            THEN calls[c].fallbackCalls =
                   <<[username |-> calls[c].username, methods |-> <<>>]>>
            ELSE calls[c].outcome = ErrorFallback
\* C23: FIDO2_GET, passkeyAuthInit or passkeyAuthComplete raises a backend
\* error with code not_found: the fallback handler is invoked (with an empty
\* list) when one is registered, otherwise the call rejects with the
\* ERROR_FALLBACK error; the caller never receives the not_found error.
C23_NotFoundFallsBack ==
  \A c \in Calls :
    (IsPasskey(c, FIDO2_GET) /\ calls[c].thrown = "not_found")
      => /\ calls[c].outcome.msgCode # "not_found"
         /\ IF variant = "session" /\ calls[c].fallback
            THEN /\ calls[c].fallbackCalls =
                      <<[username |-> calls[c].username, methods |-> <<>>]>>
                 /\ calls[c].outcome.kind = "pending"
            ELSE calls[c].outcome = ErrorFallback

\* passkeyAuthComplete raised not_found after the get ceremony and the call
\* was rejected with the fallback error
C23_Witness ==
  \E c \in Calls :
    /\ IsPasskey(c, FIDO2_GET) /\ calls[c].thrown = "not_found"
    /\ calls[c].ceremonies = 1 /\ calls[c].backend = 2
    /\ calls[c].outcome = ErrorFallback
\* C24: FIDO2_GET, any error other than a not_found backend error (a backend
\* error with another code or none, a failed or cancelled get ceremony) is
\* passed on to the caller: the call is rejected, and not with the fallback
\* error; it is neither swallowed nor left pending.
C24_OtherErrorsPassThrough ==
  \A c \in Calls :
    (/\ IsPasskey(c, FIDO2_GET)
     /\ calls[c].thrown \in (BackendErrorCodes \ {"not_found"}) \cup {"NotAllowedError"})
      => /\ calls[c].outcome.kind = "rejected"
         /\ calls[c].outcome # ErrorFallback
\* the answers call c has sent that are not the AUTH_PARAMS echo
TokenAnswers(c) ==
  {i \in 1..Len(calls[c].sent) : calls[c].sent[i].answer # AUTH_PARAMS}

\* the first create ceremony of call c, or the passkeyRegComplete request
\* after it, has failed
CreateFailed(c) ==
  /\ IsPasskey(c, FIDO2_CREATE) /\ calls[c].ceremonies = 1
  /\ calls[c].thrown \in BackendErrorCodes \cup {"NotAllowedError"}

\* C25: FIDO2_CREATE, the create ceremony fails or is cancelled, or
\* passkeyRegComplete fails: the call rejects, no challenge answer is sent and
\* no trusted-device id is stored.
C25_CreateFailureSurfaced ==
  \A c \in Calls :
    CreateFailed(c)
      => /\ calls[c].outcome.kind = "rejected"
         /\ TokenAnswers(c) = {}
         /\ calls[c].savedDevice = ""
\* the token answer call c sends in this step, <<>> when it sends none
NewTokenAnswer(c) ==
  IF /\ Len(calls'[c].sent) = Len(calls[c].sent) + 1
     /\ calls'[c].sent[Len(calls'[c].sent)].answer # AUTH_PARAMS
  THEN <<calls'[c].sent[Len(calls'[c].sent)].answer>>
  ELSE <<>>

\* C26: FIDO2_CREATE, substantive challenge: the create ceremony is started
\* first; passkeyRegComplete is requested only when the ceremony has returned
\* a credential; the trusted-device id is stored only when passkeyRegComplete
\* has answered, and exactly when the answer carries one; the challenge
\* answer is sent only then, and it is the jwtAccess that passkeyRegComplete
\* returned.
C26_CreateStepsInOrder ==
  [][\A c \in Calls :
       (IsPasskey(c, FIDO2_CREATE) /\ calls'[c].op = "passkey") =>
         /\ calls'[c].ceremonies # calls[c].ceremonies
              => calls[c].pc = "idle" /\ calls'[c].pc = "create"
         /\ calls'[c].backend # calls[c].backend
              => calls[c].pc = "create" /\ calls'[c].pc = "regComplete"
         /\ calls'[c].savedDevice # calls[c].savedDevice
              => calls[c].pc = "regComplete" /\ NewTokenAnswer(c) # <<>>
         /\ NewTokenAnswer(c) # <<>>
              => /\ calls[c].pc = "regComplete" /\ calls'[c].pc = "idle"
                 /\ NewTokenAnswer(c) = <<calls'[c].jwt.jwtAccess>>
                 /\ calls'[c].savedDevice =
                      IF calls'[c].jwt.deviceID # "" THEN calls'[c].jwt.deviceID
                      ELSE calls[c].savedDevice
         /\ calls[c].pc = "create" => calls'[c].pc \in {"create", "regComplete", "idle"}
         /\ (calls[c].pc \in {"create", "regComplete"} /\ calls'[c].thrown # calls[c].thrown)
              => /\ calls'[c].sent = calls[c].sent
                 /\ calls'[c].savedDevice = calls[c].savedDevice
                 /\ calls'[c].backend = calls[c].backend
    ]_vars

\* a registration went through all four steps and the backend returned a
\* trusted-device id
C26_Witness ==
  \E c \in Calls :
    /\ IsPasskey(c, FIDO2_CREATE)
    /\ calls[c].ceremonies = 1 /\ calls[c].backend = 1
    /\ calls[c].jwt.deviceID = "dev1" /\ calls[c].savedDevice = "dev1"
    /\ \E i \in TokenAnswers(c) : calls[c].sent[i].answer = calls[c].jwt.jwtAccess
\* C27: FIDO2_GET, proceed branch: the get ceremony is started only from the
\* continuation of passkeyAuthInit and with the caller's abort controller
\* aborted; passkeyAuthComplete is requested only when the ceremony has
\* returned an assertion; an answer is sent only when passkeyAuthComplete has
\* returned, and it is the jwtAccess of that result.
C27_GetStepsInOrder ==
  [][\A c \in Calls :
       (IsPasskey(c, FIDO2_GET) /\ calls'[c].op = "passkey") =>
         /\ calls'[c].ceremonies # calls[c].ceremonies
              => /\ calls[c].pc = "authInit" /\ calls'[c].pc = "get"
                 /\ calls[c].ctl # 0 => aborted'[calls[c].ctl]
                 /\ calls'[c].didAbort = (calls[c].didAbort \/
                                           (calls[c].ctl # 0 /\ ~aborted[calls[c].ctl]))
         /\ calls'[c].didAbort # calls[c].didAbort
              => calls'[c].ceremonies # calls[c].ceremonies
         /\ calls'[c].backend # calls[c].backend
              => \/ calls[c].pc = "idle" /\ calls'[c].pc = "authInit"
                 \/ calls[c].pc = "get" /\ calls'[c].pc = "authComplete"
         /\ calls'[c].sent # calls[c].sent
              => /\ calls[c].pc = "authComplete" /\ calls'[c].pc = "idle"
                 /\ calls'[c].sent =
                      Append(calls[c].sent,
                             [user |-> calls[c].user,
                              answer |-> calls'[c].jwt.jwtAccess,
                              authentication_type |-> FIDO2_GET,
                              tag |-> calls[c].chal])
                 /\ calls'[c].jwt.jwtAccess \in BackendJwts
    ]_vars

\* a sign-in went through the proceed branch up to the answer, and its
\* handler aborted the caller's controller on the way
C27_Witness ==
  \E c \in Calls :
    /\ IsPasskey(c, FIDO2_GET) /\ calls[c].didAbort
    /\ calls[c].ceremonies = 1 /\ calls[c].backend = 2
    /\ Len(calls[c].sent) = 1
    /\ calls[c].sent[1].answer = calls[c].jwt.jwtAccess
\* the conditional-UI ceremony of call a is in flight on the signal of
\* controller k
AutofillInFlight(a, k) ==
  calls[a].op = "autofill" /\ calls[a].pc = "autofill" /\ calls[a].ctl = k

\* in this step passkeyAuthInit of the FIDO2_GET call c returns a result with
\* which the handler neither falls back, nor rejects, nor throws
ProceedBranch(c) ==
  /\ IsPasskey(c, FIDO2_GET) /\ calls[c].pc = "authInit"
  /\ calls'[c].pc # "authInit" /\ calls'[c].thrown = calls[c].thrown
  /\ IF variant = "session"
     THEN ~BelowThreshold(calls'[c], calls'[c].initRes)
     ELSE ~NotProceed(calls'[c], calls'[c].initRes)

\* C28: an autofill ceremony is in flight on the signal of a shared abort
\* controller and a signInPasskey call with that controller reaches its
\* proceed branch: the explicit get ceremony is always started, and when it
\* is started the controller's signal is aborted; an autofill ceremony whose
\* signal is aborted never completes a sign-in.
C28_ExplicitCancelsAutofill ==
  [][/\ \A c \in Calls :
          ProceedBranch(c) =>
            /\ calls'[c].pc = "get"
            /\ calls'[c].ceremonies = calls[c].ceremonies + 1
            /\ \A a \in Calls :
                 AutofillInFlight(a, calls[c].ctl) => aborted'[calls[c].ctl]
     /\ \A a \in Calls, k \in Controllers :
          (AutofillInFlight(a, k) /\ aborted[k])
            => calls'[a].op = "autofill" /\ calls'[a].outcome.kind # "resolved"
    ]_vars

\* the explicit ceremony is running, started by a handler that aborted the
\* controller on whose signal an autofill ceremony is still in flight
C28_Witness ==
  \E c, a \in Calls :
    /\ IsPasskey(c, FIDO2_GET) /\ calls[c].pc = "get" /\ calls[c].didAbort
    /\ calls[c].ctl # 0 /\ AutofillInFlight(a, calls[c].ctl)
    /\ aborted[calls[c].ctl]
\* C29: customAuthenticationInit, on a challenge of the provider: tagged
\* EMAIL_OTP, the call resolves with the pending user handle and no tokens;
\* tagged AUTH_PARAMS, the tag is echoed as the answer and the call stays
\* pending; with any other tag or none, the call rejects with "Invalid custom
\* challenge".  A call that a challenge has resolved was resolved by an
\* EMAIL_OTP challenge.
C29_OtpInitByChallengeTag ==
  [][\A c \in Calls :
       /\ (calls[c].op = "otpInit" /\ calls'[c].nchal = calls[c].nchal + 1) =>
            /\ calls[c].outcome.kind = "pending"
            /\ CASE calls'[c].chal = EMAIL_OTP ->
                      /\ calls'[c].outcome = UserValue(calls[c].user)
                      /\ calls'[c].outcome.idToken = "" /\ calls'[c].outcome.accessToken = ""
                      /\ calls'[c].sent = calls[c].sent
                 [] calls'[c].chal = AUTH_PARAMS ->
                      /\ calls'[c].outcome.kind = "pending"
                      /\ calls'[c].sent =
                           Append(calls[c].sent,
                                  [user |-> calls[c].user, answer |-> AUTH_PARAMS,
                                   authentication_type |-> EMAIL_OTP, tag |-> AUTH_PARAMS])
                 [] OTHER ->
                      /\ calls'[c].outcome = Rejection("Error", "Invalid custom challenge", "none")
                      /\ calls'[c].sent = calls[c].sent
       /\ (calls'[c].op = "otpInit" /\ calls'[c].outcome.kind = "resolved"
              /\ calls'[c].cb = "customChallenge")
            => calls'[c].chal = EMAIL_OTP
    ]_vars

\* the handshake was echoed and the EMAIL_OTP challenge then resolved the
\* call with its user
C29_Witness ==
  \E c \in Calls :
    /\ calls[c].op = "otpInit" /\ calls[c].nchal = 2 /\ calls[c].chal = EMAIL_OTP
    /\ Len(calls[c].sent) = 1 /\ calls[c].sent[1].answer = AUTH_PARAMS
    /\ calls[c].outcome = UserValue(calls[c].user)
\* C30: no retries: a customAuthenticationPasskey call of a valid mode invokes
\* initiateAuth exactly once, starts at most one WebAuthn ceremony and makes
\* at most one completion request (passkeyRegComplete, passkeyAuthComplete;
\* FIDO2_GET has one passkeyAuthInit request before it), whatever challenges
\* the provider delivers after an answer was sent.
C30_NoRetry ==
  \A c \in Calls :
    (calls[c].op = "passkey" /\ ~InvalidType(calls[c]))
      => /\ calls[c].initiated = 1
         /\ calls[c].ceremonies <= 1
         /\ calls[c].backend <= (IF calls[c].type = FIDO2_GET THEN 2 ELSE 1)
RECURSIVE SumTo(_, _)
SumTo(f, n) == IF n = 0 THEN 0 ELSE f[n] + SumTo(f, n - 1)

\* challenges the provider has delivered on the session of CognitoUser u, to
\* whichever callback object was registered for the request it answers
ChallengesOn(u) ==
  SumTo([c \in Calls |-> IF calls[c].user = u THEN calls[c].nchal ELSE 0], MaxOtpCalls)

\* challenge answers sent on the session of CognitoUser u
AnswersOn(u) ==
  SumTo([c \in Calls |-> IF calls[c].user = u THEN Len(calls[c].sent) ELSE 0], MaxOtpCalls)

\* C31: within one identity-provider session the round-trips are sequential:
\* the client has never sent more challenge answers on a session than it has
\* received challenges on it, also when completeEmailOTP is called more than
\* once on the same pending user.  (A session that the provider has ended with
\* onSuccess before any challenge is left out.)
C31_OneAnswerPerChallenge ==
  \A u \in Calls :
    calls[u].cb # "onSuccess" => AnswersOn(u) <= ChallengesOn(u)
\* C32: an error thrown by a passkey-backend request leaves execute as a
\* LoginidAPIError: a payload with a msg gives that message and the payload's
\* msgCode; a payload with only a message gives that message and no code;
\* every other payload gives "Unknown error" and no code.
C32_BackendErrorsWrapped ==
  (apiCall.error # Pending /\ apiCall.baseUrlSet) =>
    LET p == apiCall.payload
        e == apiCall.error
        hasMsg == p.kind = "object" /\ p.msg \notin {"none", ""}
        hasMessage == p.kind = "object" /\ p.message \notin {"none", ""}
    IN /\ e.kind = "rejected" /\ e.errClass = "LoginidAPIError"
       /\ hasMsg => (e.msg = p.msg /\ e.msgCode = p.msgCode)
       /\ (~hasMsg /\ hasMessage) => (e.msg = p.message /\ e.msgCode = "none")
       /\ (~hasMsg /\ ~hasMessage) => (e.msg = "Unknown error" /\ e.msgCode = "none")

\* a response body {msg, msgCode: 'not_found'} has become a LoginidAPIError
\* with that code
C32_Witness ==
  /\ apiCall.baseUrlSet /\ apiCall.payload.kind = "object"
  /\ apiCall.payload.msg = "m1" /\ apiCall.payload.msgCode = "not_found"
  /\ apiCall.error = LoginidAPIError("m1", "not_found")
\* C33: in the client metadata of an answer the fields of the mode win over
\* the caller's metaData: authentication_type is the mode of the call and,
\* in the passkey modes, options is the serialized fullOptions, whatever keys
\* metaData holds; the caller's other keys are passed on.
C33_ModeFieldsWin ==
  metaCall.built =>
    LET cm == metaCall.clientMetadata
        md == metaDataOf(metaCall.options)
    IN /\ cm["authentication_type"] = metaCall.type
       /\ metaCall.mode = "passkey" =>
            cm["options"] = JSON_stringify(FullOptions(metaCall.token,
                                                       metaCall.options.displayName))
       /\ \A k \in DOMAIN md \ {"authentication_type", "options"} :
            k \in DOMAIN cm /\ cm[k] = md[k]

\* a FIDO2_GET call whose metaData carries both reserved keys has built its
\* metadata
C33_Witness ==
  /\ metaCall.built /\ metaCall.mode = "passkey" /\ metaCall.type = FIDO2_GET
  /\ metaCall.options.hasMetaData
  /\ DOMAIN metaCall.options.metaData = MetaKeys
  /\ metaCall.options.metaData["authentication_type"] = FIDO2_CREATE
  /\ metaCall.options.metaData["options"] = "{idToken:tokB}"
  /\ metaCall.token = "tokA"
\* C34: FIDO2_GET with a supplied options.matchThreshold T >= 0: the fallback
\* branch is taken exactly when the match score is less than T; a score equal
\* to T goes on to the ceremony, and with T = 0 no score takes the branch.
C34_ThresholdStrict ==
  \A c \in Calls :
    (/\ variant = "session" /\ IsPasskey(c, FIDO2_GET) /\ calls[c].nchal = 1
     /\ calls[c].initRes.present /\ calls[c].initRes.matchScore # NoScore
     /\ calls[c].matchThreshold # NoThreshold)
      => (calls[c].ceremonies = 0
            <=> calls[c].initRes.matchScore < calls[c].matchThreshold)
\* C35: a FIDO2_GET handler that does not go on to the ceremony after
\* passkeyAuthInit (the fallback / rejection branch, and the catch of an init
\* error) touches nothing else: the caller's abort controller is not aborted,
\* no WebAuthn ceremony is started, no further backend request
\* (passkeyAuthComplete) is made and no challenge answer is sent.
C35_FallbackBranchFrame ==
  [][\A c \in Calls :
       (IsPasskey(c, FIDO2_GET) /\ calls[c].pc = "authInit" /\ calls'[c].pc = "idle")
         => /\ aborted' = aborted
            /\ calls'[c].didAbort = calls[c].didAbort
            /\ calls'[c].ceremonies = calls[c].ceremonies
            /\ calls'[c].backend = calls[c].backend
            /\ calls'[c].sent = calls[c].sent
            /\ calls'[c].req = calls[c].req]_vars

\* the branch was taken on an init result by a call that has a live abort
\* controller: the fallback handler was invoked, or the call was rejected
\* with the fallback error or resolved as a fallback result
C35_Witness ==
  \E c \in Calls :
    /\ IsPasskey(c, FIDO2_GET) /\ calls[c].nchal = 1 /\ calls[c].initRes.present
    /\ calls[c].pc = "idle" /\ calls[c].ceremonies = 0 /\ calls[c].thrown = ""
    /\ calls[c].ctl # 0 /\ ~aborted[calls[c].ctl]
    /\ \/ calls[c].fallbackCalls # <<>>
       \/ calls[c].outcome.kind # "pending"
\* C36: an initializeEmailOTP whose promise is rejected leaves the held
\* pending user as it was, and a completeEmailOTP sends its answer on the
\* session of the user held when it is called: after a successful init for A
\* and a rejected init for B the answer goes to A's session.
C36_FailedInitKeepsPendingUser ==
  [][\A c \in Calls :
       /\ (calls[c].op = "otpInit" /\ calls[c].outcome.kind = "pending"
             /\ calls'[c].outcome.kind = "rejected")
            => currentCognitoUser' = currentCognitoUser
       /\ (calls[c].op = "none" /\ calls'[c].op = "otpComplete" /\ calls'[c].sent # <<>>)
            => /\ currentCognitoUser # 0
               /\ calls'[c].sent[1].user = currentCognitoUser
               /\ calls'[c].user = currentCognitoUser]_vars

\* one init resolved with its CognitoUser, a later init (a CognitoUser of its
\* own) was rejected after initiating its session, and the completeEmailOTP
\* after them answered on the first user's session
C36_Witness ==
  \E a, b, d \in Calls :
    /\ a < b /\ b < d
    /\ calls[a].op = "otpInit" /\ calls[a].outcome.kind = "resolved"
    /\ calls[b].op = "otpInit" /\ calls[b].outcome.kind = "rejected"
    /\ calls[b].initiated = 1
    /\ calls[a].user # calls[b].user
    /\ calls[d].op = "otpComplete" /\ calls[d].sent # <<>>
    /\ calls[d].sent[1].user = calls[a].user
    /\ currentCognitoUser = calls[a].user
\* C37: signInWithPasskeyAutofill initiates no provider session before
\* authenticateWithPasskey (autofill ceremony and backend verification) has
\* returned successfully; when it throws, or its signal is aborted, the call
\* rejects with no provider session initiated or awaiting an answer; when
\* conditional mediation is unavailable the call rejects with "not available"
\* and no ceremony is started.
C37_AutofillBeforeSession ==
  [][\A c \in Calls :
       /\ calls'[c].op = "autofill"
            => (calls'[c].initiated = 0 /\ calls'[c].req = 0 /\ calls'[c].sent = <<>>)
       /\ (calls[c].pc = "autofill" /\ calls'[c].op = "autofill" /\ calls'[c].pc # "autofill")
            => calls'[c].outcome.kind = "rejected"
       /\ (calls[c].pc = "autofill" /\ SignalAborted(calls[c]) /\ calls'[c] # calls[c])
            => (calls'[c].outcome.kind = "rejected" /\ calls'[c].initiated = 0)
       /\ (calls[c].outcome.kind = "pending"
             /\ calls'[c].outcome = LoginidAPIError("not available", "none"))
            => (calls[c].op = "none" /\ calls'[c].pc = "idle" /\ calls'[c].ceremonies = 0)]_vars

\* an autofill ceremony was aborted through its signal and the call is
\* rejected with no provider session
C37_Witness ==
  \E c \in Calls :
    /\ calls[c].op = "autofill" /\ calls[c].pc = "idle"
    /\ calls[c].outcome = Rejection("DOMException", "AbortError", "none")
    /\ calls[c].initiated = 0 /\ calls[c].req = 0
\* C38: a call that has resolved or rejected sends no further challenge
\* answer and starts no further WebAuthn ceremony or backend request,
\* whatever callbacks the provider delivers afterwards.
C38_QuietAfterOutcome ==
  [][\A c \in Calls :
       calls[c].outcome.kind # "pending"
         => /\ calls'[c].sent = calls[c].sent
            /\ calls'[c].ceremonies = calls[c].ceremonies
            /\ calls'[c].backend = calls[c].backend]_vars
\* the call has resolved with the session the provider handed to onSuccess,
\* as an authenticated result
ResolvedAuthenticated(c) ==
  /\ calls[c].outcome.kind = "resolved"
  /\ calls[c].cb = "onSuccess" /\ calls[c].outcome.session = calls[c].cbArg
  /\ IF variant = "session"
     THEN calls[c].outcome.shape = "session"
     ELSE calls[c].outcome.isAuthenticated /\ ~calls[c].outcome.isFallback

\* C39: with a well-behaved environment every FIDO2_CREATE, FIDO2_GET (on the
\* proceed branch) and ACCESS_JWT call eventually resolves with the
\* provider's session as an authenticated result.
C39_EventuallyAuthenticated ==
  \A c \in Calls :
    (calls[c].op = "passkey" /\ calls[c].type \in {FIDO2_CREATE, FIDO2_GET, ACCESS_JWT})
      ~> ResolvedAuthenticated(c)

\* a FIDO2_GET call that went through a handshake and a substantive
\* challenge, two ceremonies and two backend verifications has resolved
C39_Witness ==
  \E c \in Calls :
    /\ IsPasskey(c, FIDO2_GET) /\ ResolvedAuthenticated(c)
    /\ calls[c].nchal = MaxChallenges /\ calls[c].ceremonies >= 1
====
